---------------------------- MODULE Spec2Model ----------------------------
(***************************************************************************)
(* A model of the jukebox controller (src/src/jukebox.rs) and of the       *)
(* playlist entity (src/src/playlist.rs) of the sunk client library.       *)
(*                                                                         *)
(* The library is synchronous: every operation builds one query, hands it  *)
(* to a transport, and decodes the JSON value the transport gives back.    *)
(* The state of the model is what an observer of one calling thread sees:  *)
(*   script    the values the outside world is going to hand to the        *)
(*             thread, in order: the answer of the jukebox transport       *)
(*             (Client), the answer of the playlist transport (Sunk), or a *)
(*             raw JSON value the caller passes to Playlist::from;         *)
(*   log       the calls made so far, each with its arguments, the         *)
(*             requests it issued, the answer it consumed and its result;  *)
(*   parsed    the Playlist value the caller holds (Playlist::from).       *)
(***************************************************************************)
EXTENDS Integers, Sequences, FiniteSets

VARIABLES script, log, parsed

vars == <<script, log, parsed>>

(***************************************************************************)
(* Bounds of the model.                                                    *)
(***************************************************************************)
MaxLen == 2

MaxEntries == 2

MaxStrLen == 2

\* All sequences over S of length at most n.
SeqsUpTo(S, n) == UNION {[1..k -> S] : k \in 0..n}

(***************************************************************************)
(* JSON values (serde_json::Value).  A number is an integer or a float; a  *)
(* float is held as a count of quarters (3 is 0.75, 6 is 1.5), all of      *)
(* which f32 and f64 represent exactly.  A string is a sequence of         *)
(* characters.  An object is a function from the keys it holds.            *)
(***************************************************************************)
JNull == [t |-> "null"]

JBool(b) == [t |-> "bool", b |-> b]

JInt(i) == [t |-> "int", i |-> i]

JFloat(q) == [t |-> "float", q |-> q]

JStr(s) == [t |-> "str", s |-> s]

JArr(a) == [t |-> "arr", a |-> a]

JObj(o) == [t |-> "obj", o |-> o]

\* Marks a key an object does not hold (never a member of an object).
Absent == [t |-> "absent"]

\* The object holding the keys of f that are not Absent.
Strip(f) == JObj([k \in {x \in DOMAIN f : f[x] # Absent} |-> f[k]])

\* Map access by key.
Get(v, k) == IF v.t = "obj" /\ k \in DOMAIN v.o THEN v.o[k] ELSE Absent

(***************************************************************************)
(* Results and errors.                                                     *)
(***************************************************************************)
TransportError(m) == [kind |-> "Transport", msg |-> m]

ParseError(m) == [kind |-> "Parse", msg |-> m]

Err(e) == [err |-> e]

IsErr(r) == DOMAIN r = {"err"}

Aborted == [abort |-> "not yet implemented"]

None == [none |-> TRUE]

Some(x) == [some |-> x]

(***************************************************************************)
(* Decoding of scalars.                                                    *)
(***************************************************************************)
Digits == {"0", "1", "2", "3", "4", "5", "6", "7", "8", "9"}

DigitVal(c) ==
    CASE c = "0" -> 0 [] c = "1" -> 1 [] c = "2" -> 2 [] c = "3" -> 3
      [] c = "4" -> 4 [] c = "5" -> 5 [] c = "6" -> 6 [] c = "7" -> 7
      [] c = "8" -> 8 [] c = "9" -> 9

RECURSIVE DigitsValue(_, _)
\* The number the digits of s spell, most significant first, from acc.
DigitsValue(s, acc) ==
    IF s = <<>> THEN acc ELSE DigitsValue(Tail(s), 10 * acc + DigitVal(Head(s)))

\* str::parse::<u64>: an optional "+", then one or more decimal digits.  (The
\* strings of the model are too short to overflow 64 bits.)
ParseU64(s) ==
    LET body == IF s # <<>> /\ Head(s) = "+" THEN Tail(s) ELSE s
    IN  IF body # <<>> /\ \A i \in 1..Len(body) : body[i] \in Digits
        THEN Some(DigitsValue(body, 0))
        ELSE None

\* What serde accepts for a field of each type, from a JSON value.
IsIsize(v) == v.t = "int"

IsUsize(v) == v.t = "int" /\ v.i >= 0

IsBool(v) == v.t = "bool"

IsF32(v) == v.t \in {"int", "float"}

\* The f32 of a JSON number, in quarters.
F32Of(v) == IF v.t = "int" THEN 4 * v.i ELSE v.q

\* u64 -> usize (song.id as usize): value-preserving on a 64-bit target.
AsUsize(n) == n

(***************************************************************************)
(* Song (media::song::Song): an identifier and metadata.  On the wire the  *)
(* identifier is a string; decoding fails when the value is no object or   *)
(* the identifier is no numeric string.                                    *)
(***************************************************************************)
SongFrom(j) ==
    IF j.t # "obj" THEN Err(ParseError("not an object"))
    ELSE IF Get(j, "id").t # "str" THEN Err(ParseError("id is not a string"))
    ELSE IF ParseU64(Get(j, "id").s) = None
         THEN Err(ParseError("id is not a number"))
    ELSE [song |-> [id |-> ParseU64(Get(j, "id").s).some]]

(***************************************************************************)
(* serde's decoding of a struct from a JSON value: from an object by field *)
(* name (keys it does not know are ignored), or from an array holding      *)
(* exactly the fields' values in declaration order.                        *)
(***************************************************************************)
StructFields(v, names) ==
    IF v.t = "obj" THEN [i \in 1..Len(names) |-> Get(v, names[i])]
    ELSE IF v.t = "arr" /\ Len(v.a) = Len(names) THEN v.a
    ELSE [i \in 1..Len(names) |-> Absent]

SerdeError == ParseError("serde_json")

\* A status whose volume is forced into [0, 1].
JukeboxStatusClamped(index, playing, volume, position) ==
    [index |-> index, playing |-> playing,
     volume |-> IF volume < 0 THEN 0 ELSE IF volume > 4 THEN 4 ELSE volume,
     position |-> position]

\* #[derive(Deserialize)] struct JukeboxStatus
JukeboxStatus(index, playing, volume, position) ==
    [index |-> index, playing |-> playing, volume |-> volume,
     position |-> position]

StatusFromValue(v) ==
    LET f == StructFields(v, <<"currentIndex", "playing", "gain", "position">>)
    IN  IF IsIsize(f[1]) /\ IsBool(f[2]) /\ IsF32(f[3]) /\ IsUsize(f[4])
        THEN [status |-> JukeboxStatus(f[1].i, f[2].b, F32Of(f[3]), f[4].i)]
        ELSE Err(SerdeError)

\* Vec<Song>: every element of an array, in order.
SongsFromValue(v) ==
    IF v.t = "arr" /\ \A i \in 1..Len(v.a) : ~IsErr(SongFrom(v.a[i]))
    THEN Some([i \in 1..Len(v.a) |-> SongFrom(v.a[i]).song])
    ELSE None

\* PlaylistFromValue with the songs in the reverse of the order of entry.
PlaylistFromValueReversed(v) ==
    LET f == StructFields(v, <<"currentIndex", "playing", "gain", "position",
                               "entry">>)
    IN  IF /\ IsIsize(f[1]) /\ IsBool(f[2]) /\ IsF32(f[3]) /\ IsUsize(f[4])
           /\ SongsFromValue(f[5]) # None
        THEN LET l == SongsFromValue(f[5]).some
             IN  [jukeboxPlaylist |->
                    [status |-> [index |-> f[1].i, playing |-> f[2].b,
                                 volume |-> F32Of(f[3]), position |-> f[4].i],
                     songs  |-> [i \in 1..Len(l) |-> l[Len(l) + 1 - i]]]]
        ELSE Err(SerdeError)

\* impl Deserialize for JukeboxPlaylist: the shadow record, then the regrouping.
PlaylistFromValue(v) ==
    LET f == StructFields(v, <<"currentIndex", "playing", "gain", "position",
                               "entry">>)
    IN  IF /\ IsIsize(f[1]) /\ IsBool(f[2]) /\ IsF32(f[3]) /\ IsUsize(f[4])
           /\ SongsFromValue(f[5]) # None
        THEN [jukeboxPlaylist |->
                 [status |-> JukeboxStatus(f[1].i, f[2].b, F32Of(f[3]), f[4].i),
                  songs  |-> SongsFromValue(f[5]).some]]
        ELSE Err(SerdeError)

(***************************************************************************)
(* The query builder (query::Query): an ordered list of key/value pairs.   *)
(* A value is an unsigned integer [u], a string [s] or a float [f].        *)
(***************************************************************************)
Pair(k, v) == [k |-> k, v |-> v]

QueryWith(k, v) == <<Pair(k, v)>>

\* .arg(key, optional value): nothing is added for None.
QueryArg(q, k, opt) == IF opt = None THEN q ELSE Append(q, Pair(k, opt.some))

\* .arg_list(key, list): one pair per element, in the order of the list.
QueryArgList(q, k, list) == q \o [i \in 1..Len(list) |-> Pair(k, list[i])]

QueryBuild(q) == q

Request(endpoint, query) == [endpoint |-> endpoint, query |-> query]

(***************************************************************************)
(* The outside world.  An element of the script is the answer of a         *)
(* transport to one request, or a raw value the caller passes in.          *)
(***************************************************************************)
ClientOk(v) == [from |-> "client", ok |-> v]

ClientErr(m) == [from |-> "client", err |-> TransportError(m)]

SunkOk(v) == [from |-> "sunk", ok |-> v]

SunkErr(m) == [from |-> "sunk", err |-> TransportError(m)]

Raw(v) == [from |-> "caller", ok |-> v]

IsFailure(r) == "err" \in DOMAIN r

\* A call record of the log.  sent: the requests the call issued, in order;
\* answer: the script element it consumed (None when it consumed none);
\* decodes: the number of elements it handed to Song::from.
Call(op, args, sent, answer, result, decodes) ==
    [op |-> op, args |-> args, sent |-> sent, answer |-> answer,
     result |-> result, decodes |-> decodes]

NoArgs == [none |-> TRUE]

\* The next answer of the transport named t is ready.
Ready(t) == script # <<>> /\ Head(script).from = t

(***************************************************************************)
(* The arguments the caller passes.                                        *)
(***************************************************************************)
SongIds == {3, 7}

Usizes == {0, 5, 7}

Songs == {[id |-> i] : i \in SongIds}

\* f32 volumes, in quarters: -0.5, 0, 0.75 and 1.5.
Volumes == {-2, 0, 3, 6}

Users == {None, Some(<<"u">>)}


(***************************************************************************)
(* The jukebox controller.                                                 *)
(***************************************************************************)
\* A controller that remembers how many calls it has made and sends the count
\* as the index of a call that has none.
JukeboxArgsCounting(action, index, ids) ==
    QueryBuild(QueryArgList(
        QueryArg(QueryWith("action", [s |-> action]), "index",
                 IF index = None /\ log # <<>> THEN Some([u |-> Len(log)])
                 ELSE index),
        "id", ids))

\* The query of send_action_with.
JukeboxArgs(action, index, ids) ==
    QueryBuild(QueryArgList(QueryArg(QueryWith("action", [s |-> action]),
                                     "index", index),
                            "id", ids))

\* serde_json::from_value::<T>, T being JukeboxStatus or JukeboxPlaylist.
FromValue(T, v) ==
    IF T = "JukeboxPlaylist" THEN PlaylistFromValue(v) ELSE StatusFromValue(v)

\* One request to the jukebox transport, and the decoding of its answer as a
\* T; a failure of the transport is returned as it is.
JukeboxGet(op, args, query, T) ==
    /\ Ready("client")
    /\ LET res == Head(script)
       IN  log' = Append(log,
                Call(op, args, <<Request("jukeboxControl", query)>>, res,
                     IF IsFailure(res) THEN Err(res.err)
                     ELSE FromValue(T, res.ok),
                     0))
    /\ script' = Tail(script)
    /\ UNCHANGED parsed

send_action_with(op, args, action, index, ids) ==
    JukeboxGet(op, args, JukeboxArgs(action, index, ids), "JukeboxStatus")

send_action(op, action) == send_action_with(op, NoArgs, action, None, <<>>)

playlist ==
    JukeboxGet("playlist", NoArgs, QueryWith("action", [s |-> "get"]),
               "JukeboxPlaylist")

status == send_action("status", "status")

\* play sending the name of the operation as its action.
play_sending_play == send_action("play", "play")

play == send_action("play", "start")

stop == send_action("stop", "stop")

skip_to ==
    \E n \in Usizes :
        send_action_with("skip_to", [n |-> n], "skip", Some([u |-> n]), <<>>)

add ==
    \E song \in Songs :
        send_action_with("add", [song |-> song], "add", None,
                         <<[u |-> AsUsize(song.id)]>>)

add_id ==
    \E id \in Usizes :
        send_action_with("add_id", [id |-> id], "add", None, <<[u |-> id]>>)

add_all ==
    \E songs \in SeqsUpTo(Songs, MaxLen) :
        send_action_with("add_all", [songs |-> songs], "add", None,
            [i \in 1..Len(songs) |-> [u |-> AsUsize(songs[i].id)]])

\* add_all_ids sending the ids last to first.
add_all_ids_reversed ==
    \E ids \in SeqsUpTo(SongIds, MaxLen) :
        send_action_with("add_all_ids", [ids |-> ids], "add", None,
            [i \in 1..Len(ids) |-> [u |-> ids[Len(ids) + 1 - i]]])

add_all_ids ==
    \E ids \in SeqsUpTo(SongIds, MaxLen) :
        send_action_with("add_all_ids", [ids |-> ids], "add", None,
            [i \in 1..Len(ids) |-> [u |-> ids[i]]])

clear == send_action("clear", "clear")

remove ==
    \E song \in Songs :
        send_action_with("remove", [song |-> song], "remove",
                         Some([u |-> AsUsize(song.id)]), <<>>)

\* remove_id sending its argument as an id, not as an index.
remove_id_as_id ==
    \E id \in Usizes :
        send_action_with("remove_id", [id |-> id], "remove", None,
                         <<[u |-> id]>>)

remove_id ==
    \E id \in Usizes :
        send_action_with("remove_id", [id |-> id], "remove", Some([u |-> id]),
                         <<>>)

shuffle == send_action("shuffle", "shuffle")

set_volume ==
    \E volume \in Volumes :
        JukeboxGet("set_volume", [volume |-> volume],
            QueryBuild(QueryArg(QueryWith("action", [s |-> "setGain"]),
                                "gain", Some([f |-> volume]))),
            "JukeboxStatus")

(***************************************************************************)
(* The playlist entity.                                                    *)
(***************************************************************************)
\* fetch!(j->key: as_str)
FetchStr(j, k) == IF Get(j, k).t = "str" THEN Some(Get(j, k).s) ELSE None

\* fetch!(j->key: as_u64)
FetchU64(j, k) ==
    IF Get(j, k).t = "int" /\ Get(j, k).i >= 0 THEN Some(Get(j, k).i) ELSE None

\* fetch!(j->key: as_str, u64)
FetchStrAsU64(j, k) ==
    IF FetchStr(j, k) = None THEN None ELSE ParseU64(FetchStr(j, k).some)

Playlist(id, name, song_count, duration, cover) ==
    [id |-> id, name |-> name, song_count |-> song_count,
     duration |-> duration, cover |-> cover]

\* Playlist::from with songCount and duration taken for each other.
PlaylistFromSwapped(j) ==
    IF j.t # "obj" THEN Err(ParseError("not an object"))
    ELSE IF FetchStrAsU64(j, "id") = None THEN Err(ParseError("id"))
    ELSE IF FetchStr(j, "name") = None THEN Err(ParseError("name"))
    ELSE IF FetchU64(j, "songCount") = None THEN Err(ParseError("songCount"))
    ELSE IF FetchU64(j, "duration") = None THEN Err(ParseError("duration"))
    ELSE IF FetchStr(j, "coverArt") = None THEN Err(ParseError("coverArt"))
    ELSE [playlist |->
             Playlist(FetchStrAsU64(j, "id").some, FetchStr(j, "name").some,
                      FetchU64(j, "duration").some,
                      FetchU64(j, "songCount").some,
                      FetchStr(j, "coverArt").some)]

\* Playlist::from: the fields are fetched in the order of the struct literal
\* and the first one that fails ends the call.
PlaylistFrom(j) ==
    IF j.t # "obj" THEN Err(ParseError("not an object"))
    ELSE IF FetchStrAsU64(j, "id") = None THEN Err(ParseError("id"))
    ELSE IF FetchStr(j, "name") = None THEN Err(ParseError("name"))
    ELSE IF FetchU64(j, "songCount") = None THEN Err(ParseError("songCount"))
    ELSE IF FetchU64(j, "duration") = None THEN Err(ParseError("duration"))
    ELSE IF FetchStr(j, "coverArt") = None THEN Err(ParseError("coverArt"))
    ELSE [playlist |->
             Playlist(FetchStrAsU64(j, "id").some, FetchStr(j, "name").some,
                      FetchU64(j, "songCount").some,
                      FetchU64(j, "duration").some,
                      FetchStr(j, "coverArt").some)]

Playlist_from ==
    /\ Ready("caller")
    /\ LET j == Head(script).ok
       IN  /\ log' = Append(log, Call("Playlist::from", [j |-> j], <<>>,
                                      Head(script), PlaylistFrom(j), 0))
           /\ parsed' = IF IsErr(PlaylistFrom(j)) THEN parsed
                        ELSE Some(PlaylistFrom(j).playlist)
    /\ script' = Tail(script)

RECURSIVE Pointer(_, _)
\* Value::pointer: the value under the keys of path, Absent when there is none
\* (the keys of the path are no array indices).
Pointer(v, path) ==
    IF path = <<>> THEN v
    ELSE IF v.t = "obj" /\ Head(path) \in DOMAIN v.o
         THEN Pointer(v.o[Head(path)], Tail(path))
    ELSE Absent

RECURSIVE DecodeSongsLenient(_, _, _)
\* The loop passing over the elements that are no songs.
DecodeSongsLenient(a, i, list) ==
    IF i > Len(a) THEN [result |-> [songs |-> list], decodes |-> Len(a)]
    ELSE IF IsErr(SongFrom(a[i])) THEN DecodeSongsLenient(a, i + 1, list)
    ELSE DecodeSongsLenient(a, i + 1, Append(list, SongFrom(a[i]).song))

RECURSIVE DecodeSongs(_, _, _)
\* The loop of get_playlist_content from element i on, list holding the songs
\* decoded so far: the result and the number of elements handed to Song::from.
DecodeSongs(a, i, list) ==
    IF i > Len(a) THEN [result |-> [songs |-> list], decodes |-> Len(a)]
    ELSE IF IsErr(SongFrom(a[i])) THEN [result |-> SongFrom(a[i]), decodes |-> i]
    ELSE DecodeSongs(a, i + 1, Append(list, SongFrom(a[i]).song))

\* The decoding of the answer to getPlaylist.
PlaylistContent(res) ==
    LET entry == Pointer(res, <<"subsonic-response", "playlist", "entry">>)
    IN  IF entry = Absent
        THEN [result |-> Err(ParseError("no entries found")), decodes |-> 0]
        ELSE IF entry.t # "arr"
        THEN [result |-> Err(ParseError("not an array")), decodes |-> 0]
        ELSE DecodeSongs(entry.a, 1, <<>>)

get_playlist_content(op, args, id) ==
    /\ Ready("sunk")
    /\ LET res == Head(script)
           got == IF IsFailure(res)
                  THEN [result |-> Err(res.err), decodes |-> 0]
                  ELSE PlaylistContent(res.ok)
       IN  log' = Append(log,
                Call(op, args,
                     <<Request("getPlaylist", <<Pair("id", [u |-> id])>>)>>,
                     res, got.result, got.decodes))
    /\ script' = Tail(script)
    /\ UNCHANGED parsed

Playlist_songs ==
    /\ parsed # None
    /\ get_playlist_content("Playlist::songs", [self |-> parsed.some],
                            parsed.some.id)

\* unimplemented!(): the calling thread aborts, and makes no later call.
get_playlists ==
    /\ script # <<>>
    /\ \E user \in Users :
           log' = Append(log, Call("get_playlists", [user |-> user], <<>>,
                                   None, Aborted, 0))
    /\ script' = <<>>
    /\ UNCHANGED parsed

\* get_playlist fetching the playlist's content.
get_playlist_fetching ==
    \E id \in Usizes : get_playlist_content("get_playlist", [id |-> id], id)

get_playlist ==
    /\ script # <<>>
    /\ \E id \in Usizes :
           log' = Append(log, Call("get_playlist", [id |-> id], <<>>, None,
                                   Aborted, 0))
    /\ script' = <<>>
    /\ UNCHANGED parsed

(***************************************************************************)
(* The values the outside world hands in.                                  *)
(***************************************************************************)
SongJson(id) == JObj([id |-> JStr(id), title |-> JStr(<<"t">>)])

\* Two songs, a song whose id is no number, and a value that is no object.
SongJsons == {SongJson(<<"3">>), SongJson(<<"7">>), SongJson(<<"x">>), JNull}

EntryVals ==
    {Absent, JNull} \cup {JArr(x) : x \in SeqsUpTo(SongJsons, MaxEntries)}

StatusObject(index, playing, gain, position, entry) ==
    Strip([currentIndex |-> index, playing |-> playing, gain |-> gain,
           position |-> position, entry |-> entry])

\* Answers in the shape of a jukebox status: every field right, of the wrong
\* type, out of range or missing.
StatusValues ==
    {StatusObject(a, b, c, d, Absent) :
        a \in {JInt(-1), JInt(1), JFloat(4)},
        b \in {JBool(TRUE), JBool(FALSE), Absent},
        c \in {JFloat(3), JFloat(6), JInt(1), Absent},
        d \in {JInt(2), JInt(-1)}}

\* Answers in the shape of a jukebox playlist.
PlaylistValues ==
    {StatusObject(a, JBool(FALSE), c, JInt(0), e) :
        a \in {JInt(-1), JInt(1)},
        c \in {JFloat(3), JInt(1), Absent},
        e \in EntryVals}

\* Values that are no objects; two hold a status and a playlist as arrays.
OtherValues ==
    {JNull, JStr(<<"o", "k">>), JArr(<<JInt(1)>>),
     JArr(<<JInt(1), JBool(TRUE), JFloat(3), JInt(0)>>),
     JArr(<<JInt(1), JBool(TRUE), JFloat(3), JInt(0),
            JArr(<<SongJson(<<"3">>)>>)>>)}

ClientAnswers ==
    {ClientErr("timed out"), ClientErr("refused")}
        \cup {ClientOk(v) : v \in StatusValues \cup PlaylistValues \cup OtherValues}

ClientFew ==
    {ClientErr("timed out"), ClientOk(JNull),
     ClientOk(StatusObject(JInt(1), JBool(TRUE), JFloat(3), JInt(2), Absent)),
     ClientOk(StatusObject(JInt(-1), JBool(FALSE), JFloat(6), JInt(0),
                           JArr(<<SongJson(<<"7">>)>>)))}

\* The answer to getPlaylist with entry under /subsonic-response/playlist.
PlaylistBody(entry) ==
    JObj([a \in {"subsonic-response"} |->
            JObj([b \in {"playlist"} |->
                    Strip([id |-> JStr(<<"1">>), entry |-> entry])])])

SunkAnswers ==
    {SunkErr("timed out"), SunkErr("refused"), SunkOk(JNull),
     SunkOk(JObj([a \in {"subsonic-response"} |-> JNull])),
     SunkOk(Strip([entry |-> JArr(<<>>)]))}
        \cup {SunkOk(PlaylistBody(e)) : e \in EntryVals \cup {SongJson(<<"3">>)}}

SunkFew ==
    {SunkErr("timed out"),
     SunkOk(PlaylistBody(JArr(<<SongJson(<<"3">>), SongJson(<<"7">>)>>))),
     SunkOk(PlaylistBody(JArr(<<SongJson(<<"x">>)>>)))}

IdChars == {"0", "1", "+", "x"}

RawPlaylist(id, name, songCount, duration, coverArt, owner) ==
    Strip([id |-> id, name |-> name, songCount |-> songCount,
           duration |-> duration, coverArt |-> coverArt, owner |-> owner])

\* Values passed to Playlist::from.
RawValues ==
    {JNull, JStr(<<"1">>), JArr(<<>>)}
        \cup {RawPlaylist(i, n, c, d, a, o) :
                i \in {Absent, JInt(1)}
                        \cup {JStr(x) : x \in SeqsUpTo(IdChars, MaxStrLen)},
                n \in {JStr(<<"a">>), Absent},
                c \in {JInt(3), JInt(-1)},
                d \in {JInt(7), JFloat(4), Absent},
                a \in {JStr(<<"c">>), JNull},
                o \in {Absent, JStr(<<"u">>)}}

RawFew ==
    {Raw(RawPlaylist(JStr(i), JStr(<<"a">>), JInt(3), JInt(7), JStr(<<"c">>),
                     Absent)) : i \in {<<"1">>, <<"1", "0">>}}

\* One call on any value; an earlier and a later call of the jukebox; a
\* playlist, then its songs, once or twice.
Scripts ==
    {<<w>> : w \in ClientAnswers \cup {Raw(v) : v \in RawValues}}
        \cup {<<a, b>> : a \in ClientFew, b \in ClientFew}
        \cup {<<r, s>> : r \in RawFew, s \in SunkAnswers}
        \cup {<<r, s, t>> : r \in RawFew, s \in SunkFew, t \in SunkFew}

(***************************************************************************)
(* The specification.                                                      *)
(***************************************************************************)
Init ==
    /\ script \in Scripts
    /\ log = <<>>
    /\ parsed = None

Next ==
    \/ playlist
    \/ status
    \/ play
    \/ stop
    \/ skip_to
    \/ add
    \/ add_id
    \/ add_all
    \/ add_all_ids
    \/ clear
    \/ remove
    \/ remove_id
    \/ shuffle
    \/ set_volume
    \/ Playlist_from
    \/ Playlist_songs
    \/ get_playlists
    \/ get_playlist

Spec == Init /\ [][Next]_vars

(***************************************************************************)
(* Vocabulary of the properties.                                           *)
(***************************************************************************)
\* The values a query sends under key k, in the order it sends them.
ValuesOf(q, k) ==
    LET sel == SelectSeq(q, LAMBDA p : p.k = k)
    IN  [i \in 1..Len(sel) |-> sel[i].v]

StatusOps ==
    {"status", "play", "stop", "skip_to", "add", "add_id", "add_all",
     "add_all_ids", "clear", "remove", "remove_id", "shuffle", "set_volume"}

JukeboxOps == StatusOps \cup {"playlist"}

\* The action the interface fixes for each operation of the jukebox.
ActionOf(op) ==
    CASE op = "playlist" -> "get"
      [] op = "status" -> "status"
      [] op = "play" -> "start"
      [] op = "stop" -> "stop"
      [] op = "skip_to" -> "skip"
      [] op \in {"add", "add_id", "add_all", "add_all_ids"} -> "add"
      [] op = "clear" -> "clear"
      [] op \in {"remove", "remove_id"} -> "remove"
      [] op = "shuffle" -> "shuffle"
      [] op = "set_volume" -> "setGain"

\* The single request of call c.
Sent(c) == c.sent[1]

\* The value of a JSON number, in quarters.
Quarters(v) == IF v.t = "float" THEN v.q ELSE 4 * v.i

\* A decimal numeral, with an optional leading "+".
IsNumeral(s) ==
    LET d == IF Len(s) > 0 /\ s[1] = "+" THEN SubSeq(s, 2, Len(s)) ELSE s
    IN  Len(d) > 0 /\ \A i \in 1..Len(d) : d[i] \in Digits

RECURSIVE Pow10(_)
Pow10(n) == IF n = 0 THEN 1 ELSE 10 * Pow10(n - 1)

RECURSIVE WeightedSum(_, _)
\* The sum of the first n digits of d, each weighted by its place.
WeightedSum(d, n) ==
    IF n = 0 THEN 0
    ELSE WeightedSum(d, n - 1) + DigitVal(d[n]) * Pow10(Len(d) - n)

\* The number a numeral denotes.
NumeralValue(s) ==
    LET d == IF s[1] = "+" THEN SubSeq(s, 2, Len(s)) ELSE s
    IN  WeightedSum(d, Len(d))

\* A JSON object that decodes as a song.
IsSongJson(j) ==
    j.t = "obj" /\ "id" \in DOMAIN j.o /\ j.o["id"].t = "str"
        /\ IsNumeral(j.o["id"].s)

(***************************************************************************)
(* The properties.                                                         *)
(***************************************************************************)
\* A flat object holding currentIndex, playing, gain and position of the
\* types of the status, and an entry array of songs.
FlatPlaylist(v) ==
    /\ v.t = "obj"
    /\ {"currentIndex", "playing", "gain", "position", "entry"}
           \subseteq DOMAIN v.o
    /\ v.o["currentIndex"].t = "int"
    /\ v.o["playing"].t = "bool"
    /\ v.o["gain"].t \in {"int", "float"}
    /\ v.o["position"].t = "int" /\ v.o["position"].i >= 0
    /\ v.o["entry"].t = "arr"
    /\ \A k \in 1..Len(v.o["entry"].a) : IsSongJson(v.o["entry"].a[k])

\* C1: a flat JSON object with currentIndex, playing, gain, position and an
\* entry array of N songs (N >= 0) parses as a JukeboxPlaylist whose songs are
\* the N songs in the order of entry and whose status holds index =
\* currentIndex, playing = playing, volume = gain and position = position.
C1_ParsesFlatPlaylist ==
    \A i \in DOMAIN log :
        LET c == log[i]
        IN  (c.op = "playlist" /\ ~IsFailure(c.answer)
                /\ FlatPlaylist(c.answer.ok))
            => LET o == c.answer.ok.o
               IN  c.result =
                     [jukeboxPlaylist |->
                        [status |-> [index |-> o["currentIndex"].i,
                                     playing |-> o["playing"].b,
                                     volume |-> Quarters(o["gain"]),
                                     position |-> o["position"].i],
                         songs |-> [k \in 1..Len(o["entry"].a) |->
                             [id |-> NumeralValue(o["entry"].a[k].o["id"].s)]]]]

\* playlist() has parsed an answer whose entry holds song 7, then song 3.
C1_Witness ==
    \E i \in DOMAIN log :
        /\ log[i].op = "playlist"
        /\ ~IsFailure(log[i].answer)
        /\ FlatPlaylist(log[i].answer.ok)
        /\ log[i].answer.ok.o["entry"] =
               JArr(<<SongJson(<<"7">>), SongJson(<<"3">>)>>)
        /\ ~IsErr(log[i].result)

\* C2: every operation of the jukebox sends one request to the endpoint
\* jukeboxControl, with exactly one action value, the one fixed for the
\* operation.
C2_EndpointAndAction ==
    \A i \in DOMAIN log :
        LET c == log[i]
        IN  c.op \in JukeboxOps
            => /\ Len(c.sent) = 1
               /\ Sent(c).endpoint = "jukeboxControl"
               /\ ValuesOf(Sent(c).query, "action") = <<[s |-> ActionOf(c.op)]>>

\* play() was called, then shuffle().
C2_Witness ==
    /\ Len(log) = 2
    /\ log[1].op = "play"
    /\ log[2].op = "shuffle"
    /\ ValuesOf(Sent(log[1]).query, "action") = <<[s |-> "start"]>>

\* C3: skip_to(n), remove_id(n) and remove(song) with n = song.id send n under
\* index and send no id; status, play, stop, clear, shuffle and the add
\* family send no index.
C3_IndexNotId ==
    \A i \in DOMAIN log :
        LET c == log[i]
            n == CASE c.op = "skip_to" -> c.args.n
                   [] c.op = "remove_id" -> c.args.id
                   [] c.op = "remove" -> c.args.song.id
        IN  /\ c.op \in {"skip_to", "remove_id", "remove"}
               => /\ ValuesOf(Sent(c).query, "index") = <<[u |-> n]>>
                  /\ ValuesOf(Sent(c).query, "id") = <<>>
            /\ c.op \in {"status", "play", "stop", "clear", "shuffle", "add",
                         "add_id", "add_all", "add_all_ids"}
               => ValuesOf(Sent(c).query, "index") = <<>>

\* remove_id(5) was called, then skip_to(5).
C3_Witness ==
    /\ Len(log) = 2
    /\ log[1].op = "remove_id" /\ log[1].args.id = 5
    /\ log[2].op = "skip_to" /\ log[2].args.n = 5

\* C4: add_all_ids(ids) sends ids as its id list, element for element;
\* add_all(songs) sends the ids of the songs in their order; add_id(id) and
\* add(song) send the one id.
C4_IdListAsGiven ==
    \A i \in DOMAIN log :
        LET c == log[i]
            sent == ValuesOf(Sent(c).query, "id")
        IN  /\ c.op = "add_all_ids"
               => sent = [k \in 1..Len(c.args.ids) |-> [u |-> c.args.ids[k]]]
            /\ c.op = "add_all"
               => sent = [k \in 1..Len(c.args.songs) |->
                              [u |-> c.args.songs[k].id]]
            /\ c.op = "add_id" => sent = <<[u |-> c.args.id]>>
            /\ c.op = "add" => sent = <<[u |-> c.args.song.id]>>

\* add_all_ids([7, 3]) was called, then add_all_ids([7, 7]).
C4_Witness ==
    /\ Len(log) = 2
    /\ log[1].op = "add_all_ids" /\ log[1].args.ids = <<7, 3>>
    /\ log[2].op = "add_all_ids" /\ log[2].args.ids = <<7, 7>>

\* What Playlist::from accepts: an object whose id is a numeral, whose name
\* and coverArt are strings and whose songCount and duration are unsigned
\* integers.
IsPlaylistJson(j) ==
    /\ j.t = "obj"
    /\ {"id", "name", "songCount", "duration", "coverArt"} \subseteq DOMAIN j.o
    /\ j.o["id"].t = "str" /\ IsNumeral(j.o["id"].s)
    /\ j.o["name"].t = "str"
    /\ j.o["songCount"].t = "int" /\ j.o["songCount"].i >= 0
    /\ j.o["duration"].t = "int" /\ j.o["duration"].i >= 0
    /\ j.o["coverArt"].t = "str"

\* C5: Playlist::from(raw) succeeds exactly when raw is such an object,
\* whatever other fields it holds, and then returns id = the number of id,
\* name, song_count = songCount, duration and cover = coverArt; in every other
\* case it returns a parse error and no Playlist.
C5_PlaylistFromExactly ==
    \A i \in DOMAIN log :
        LET c == log[i]
            j == c.args.j
        IN  c.op = "Playlist::from"
            => IF IsPlaylistJson(j)
               THEN c.result =
                      [playlist |-> [id |-> NumeralValue(j.o["id"].s),
                                     name |-> j.o["name"].s,
                                     song_count |-> j.o["songCount"].i,
                                     duration |-> j.o["duration"].i,
                                     cover |-> j.o["coverArt"].s]]
               ELSE IsErr(c.result) /\ c.result.err.kind = "Parse"

\* Playlist::from has accepted an object with id "+1" and an owner.
C5_Witness ==
    \E i \in DOMAIN log :
        /\ log[i].op = "Playlist::from"
        /\ IsPlaylistJson(log[i].args.j)
        /\ log[i].args.j.o["id"].s = <<"+", "1">>
        /\ "owner" \in DOMAIN log[i].args.j.o
        /\ ~IsErr(log[i].result)

\* The contract of a status: an object whose currentIndex is an integer,
\* playing a boolean, gain a number and position an unsigned integer.
StatusContract(v) ==
    /\ v.t = "obj"
    /\ {"currentIndex", "playing", "gain", "position"} \subseteq DOMAIN v.o
    /\ v.o["currentIndex"].t = "int"
    /\ v.o["playing"].t = "bool"
    /\ v.o["gain"].t \in {"int", "float"}
    /\ v.o["position"].t = "int" /\ v.o["position"].i >= 0

\* C6: every call of an operation of the jukebox issues exactly one request;
\* an error of the transport is returned as it is; an answer that does not
\* satisfy the contract of the status (of the playlist, for playlist()) gives
\* a parse error; any other answer gives the parsed value.
C6_OneRequestOneOutcome ==
    \A i \in DOMAIN log :
        LET c == log[i]
        IN  c.op \in JukeboxOps
            => /\ Len(c.sent) = 1
               /\ IsFailure(c.answer) => c.result = Err(c.answer.err)
               /\ ~IsFailure(c.answer)
                  => IF (IF c.op = "playlist" THEN FlatPlaylist(c.answer.ok)
                         ELSE StatusContract(c.answer.ok))
                     THEN ~IsErr(c.result)
                     ELSE IsErr(c.result) /\ c.result.err.kind = "Parse"

\* The value of the path /subsonic-response/playlist/entry.
HasEntry(v) ==
    /\ v.t = "obj" /\ "subsonic-response" \in DOMAIN v.o
    /\ v.o["subsonic-response"].t = "obj"
    /\ "playlist" \in DOMAIN v.o["subsonic-response"].o
    /\ v.o["subsonic-response"].o["playlist"].t = "obj"
    /\ "entry" \in DOMAIN v.o["subsonic-response"].o["playlist"].o

EntryAt(v) == v.o["subsonic-response"].o["playlist"].o["entry"]

\* C7: Playlist::songs issues one GET to getPlaylist with the id of the
\* playlist; it returns a parse error when the entry path is absent or no
\* array; it returns the error of the first element that is no song, having
\* decoded no later element and returning no song; otherwise it returns one
\* song for each element, in the order of the array.
C7_SongsAllOrNothing ==
    \A i \in DOMAIN log :
        LET c == log[i]
            v == c.answer.ok
            a == EntryAt(v).a
            bad == {k \in 1..Len(a) : ~IsSongJson(a[k])}
            first == CHOOSE k \in bad : \A m \in bad : k <= m
        IN  c.op = "Playlist::songs"
            => /\ c.sent = <<[endpoint |-> "getPlaylist",
                              query |-> <<[k |-> "id",
                                           v |-> [u |-> c.args.self.id]]>>]>>
               /\ ~IsFailure(c.answer)
                  => IF ~HasEntry(v) \/ EntryAt(v).t # "arr"
                     THEN /\ IsErr(c.result) /\ c.result.err.kind = "Parse"
                          /\ c.decodes = 0
                     ELSE IF bad = {}
                     THEN /\ c.result =
                               [songs |-> [k \in 1..Len(a) |->
                                   [id |-> NumeralValue(a[k].o["id"].s)]]]
                          /\ c.decodes = Len(a)
                     ELSE /\ c.result = SongFrom(a[first])
                          /\ IsErr(c.result)
                          /\ c.decodes = first

\* songs() met an entry whose first element has a non-numeric id and whose
\* second is no object, and returned the error of the first.
C7_Witness ==
    \E i \in DOMAIN log :
        /\ log[i].op = "Playlist::songs"
        /\ ~IsFailure(log[i].answer)
        /\ HasEntry(log[i].answer.ok)
        /\ EntryAt(log[i].answer.ok) = JArr(<<SongJson(<<"x">>), JNull>>)
        /\ log[i].result = Err(ParseError("id is not a number"))
        /\ log[i].decodes = 1

\* The status a result holds, if it holds one.
HasStatus(r) == DOMAIN r \in {{"status"}, {"jukeboxPlaylist"}}

StatusIn(r) == IF DOMAIN r = {"status"} THEN r.status ELSE r.jukeboxPlaylist.status

\* C8, as claimed: the volume of every status an operation of the jukebox
\* returns lies in [0, 1].
C8_VolumeInUnitInterval ==
    \A i \in DOMAIN log :
        (log[i].op \in JukeboxOps /\ HasStatus(log[i].result))
        => /\ 0 <= StatusIn(log[i].result).volume
           /\ StatusIn(log[i].result).volume <= 4

\* The gain an answer carries.
GainIn(v) == IF v.t = "obj" THEN v.o["gain"] ELSE v.a[3]

\* C8, amended: the volume of every status an operation of the jukebox
\* returns is the gain of the answer it was parsed from, whatever that gain
\* and whatever the argument of set_volume.
C8_VolumeIsGain ==
    \A i \in DOMAIN log :
        (log[i].op \in JukeboxOps /\ HasStatus(log[i].result))
        => StatusIn(log[i].result).volume = Quarters(GainIn(log[i].answer.ok))

\* set_volume(0) was answered with a gain of 1.5 and returned a volume of 1.5.
C8_Witness ==
    \E i \in DOMAIN log :
        /\ log[i].op = "set_volume"
        /\ log[i].args.volume = 0
        /\ HasStatus(log[i].result)
        /\ Get(log[i].answer.ok, "gain") = JFloat(6)
        /\ log[i].result.status.volume = 6

\* C9: get_playlists and get_playlist abort: they return neither a value nor
\* an error and issue no request.
C9_StubsAbort ==
    \A i \in DOMAIN log :
        log[i].op \in {"get_playlists", "get_playlist"}
        => /\ log[i].result = Aborted
           /\ log[i].sent = <<>>
           /\ log[i].answer = None

\* get_playlist(5) was called by a caller holding a playlist, with an answer
\* of the transport ready.
C9_Witness ==
    /\ Len(log) = 2
    /\ log[2].op = "get_playlist" /\ log[2].args.id = 5
    /\ parsed # None
    /\ log[2].result = Aborted

\* The request of a call depends on its operation and arguments alone, and
\* its result on the operation and the answer alone.
Stateless ==
    \A i, j \in DOMAIN log :
        /\ (log[i].op = log[j].op /\ log[i].args = log[j].args)
           => log[i].sent = log[j].sent
        /\ (log[i].op = log[j].op /\ log[i].answer = log[j].answer)
           => log[i].result = log[j].result

\* C10: the controller keeps no state between calls: whatever came before,
\* the request of a call depends only on the operation and its arguments and
\* the result only on the answer to that request; a later call changes no
\* earlier result; songs leaves the Playlist as it was.
C10_NoStateBetweenCalls ==
    [][/\ Stateless'
       /\ Len(log') = Len(log) + 1
       /\ \A i \in DOMAIN log : log'[i] = log[i]
       /\ log'[Len(log')].op = "Playlist::songs"
          => /\ parsed' = parsed
             /\ log'[Len(log')].args.self = parsed.some]_vars

\* add_id(7) failed, then add_id(7) succeeded.
C10_Witness ==
    /\ Len(log) = 2
    /\ log[1].op = "add_id" /\ log[2].op = "add_id"
    /\ log[1].args = log[2].args
    /\ IsErr(log[1].result)
    /\ ~IsErr(log[2].result)
    /\ log[1].sent = log[2].sent

=============================================================================
